---- MODULE Spec2Model ----
(***************************************************************************)
(* A model of news_api_mcp: the request mediator make_news_api_request and *)
(* the response formatter of tools.py, and the tool dispatch               *)
(* handle_call_tool of server.py.                                          *)
(*                                                                         *)
(* Python values are tagged tuples (None, Str, Num, List, Dict); a dict    *)
(* that is only read is a TLA+ function, the params dict that is written   *)
(* and serialised into the query string is an ordered list of <<key,       *)
(* value>> items. Text is a TLA+ string, built with \o as the f-strings    *)
(* build it.                                                               *)
(***************************************************************************)
EXTENDS Integers, Sequences, FiniteSets, TLC

VARIABLES
    pc,            \* per call: "idle", "awaiting" (suspended in client.get) or "done"
    entry,         \* per call: "tool" (handle_call_tool), "direct" (make_news_api_request) or "none"
    name,          \* per call: the tool name of the invocation
    arguments,     \* per call: the arguments of the invocation (None or a dict)
    endpoint,      \* per call: the endpoint passed to make_news_api_request
    client,        \* per call: the transport handle: "none", "open", "closed" or "caller"
    requests,      \* per call: the outbound GET requests issued so far
    outcome,       \* per call: what the awaited client.get produced
    news_data,     \* per call: what make_news_api_request returned or raised
    result,        \* per call: what the entry function returned or raised
    fmtCalls,      \* per call: how many times the list formatter was invoked
    callerParams,  \* the params dict a direct caller owns and passes by reference
    fmtKind,       \* formatter calls: "none", "articles" or "sources"
    fmtItems,      \* formatter calls: the list passed
    fmtLimit,      \* formatter calls: the limit passed
    fmtOut         \* formatter calls: the text returned

vars == <<pc, entry, name, arguments, endpoint, client, requests, outcome, news_data,
          result, fmtCalls, callerParams, fmtKind, fmtItems, fmtLimit, fmtOut>>

callVars == <<pc, entry, name, arguments, endpoint, client, requests, outcome, news_data,
              result, fmtCalls, callerParams>>

formatVars == <<fmtKind, fmtItems, fmtLimit, fmtOut>>

(***************************************************************************)
(* Bounds of the model.                                                    *)
(***************************************************************************)
NumCalls == 2

MaxArticles == 6

MaxItems == 3

MaxLimit == 4

Calls == 1..NumCalls

(***************************************************************************)
(* Python values.                                                          *)
(***************************************************************************)
None == <<"none">>

Str(s) == <<"str", s>>

Num(n) == <<"int", n>>

List(s) == <<"list", s>>

Dict(f) == <<"dict", f>>

Absent == <<"absent">>

EmptyMap == [k \in {} |-> None]

IsStr(v) == v[1] = "str"

IsDict(v) == v[1] = "dict"

IsList(v) == v[1] = "list"

\* bool(v): None, "", 0, [] and {} are falsy.
Truthy(v) ==
    CASE v[1] = "none" -> FALSE
      [] v[1] = "str"  -> v[2] # ""
      [] v[1] = "int"  -> v[2] # 0
      [] v[1] = "list" -> Len(v[2]) > 0
      [] v[1] = "dict" -> DOMAIN v[2] # {}

\* type(v).__name__, as it appears in the messages of AttributeError and TypeError.
TypeName(v) ==
    CASE v[1] = "none" -> "NoneType"
      [] v[1] = "str"  -> "str"
      [] v[1] = "int"  -> "int"
      [] v[1] = "list" -> "list"
      [] v[1] = "dict" -> "dict"

\* str(v), as an f-string renders a value.
PyStr(v) ==
    CASE v[1] = "none" -> "None"
      [] v[1] = "str"  -> v[2]
      [] v[1] = "int"  -> ToString(v[2])
      [] v[1] = "list" -> "[...]"
      [] v[1] = "dict" -> "{...}"

\* d.get(k, dflt) on a dict d.
Get(d, k, dflt) == IF k \in DOMAIN d[2] THEN d[2][k] ELSE dflt

\* k in d.
HasKey(d, k) == k \in DOMAIN d[2]

\* The dict literal whose entries are the fields of r that are not Absent.
Strip(r) == Dict([k \in {x \in DOMAIN r : r[x] # Absent} |-> r[k]])

(***************************************************************************)
(* The params dict: Params(m), m an insertion-ordered list of <<key,        *)
(* value>> items.                                                          *)
(***************************************************************************)
Params(m) == <<"params", m>>

ItemKeys(m) == {m[i][1] : i \in DOMAIN m}

CountKey(m, k) == Cardinality({i \in DOMAIN m : m[i][1] = k})

ItemValue(m, k) == m[CHOOSE i \in DOMAIN m : m[i][1] = k][2]

\* A buggy store that adds an item without looking for the key.
SetItemAppend(m, k, v) == Append(m, <<k, v>>)

\* m[k] = v: replaces the value of an existing key in place, else appends the item.
SetItem(m, k, v) ==
    IF \E i \in DOMAIN m : m[i][1] = k
    THEN [i \in DOMAIN m |-> IF m[i][1] = k THEN <<k, v>> ELSE m[i]]
    ELSE Append(m, <<k, v>>)

(***************************************************************************)
(* tools.py: module constants.                                             *)
(***************************************************************************)
NEWS_API_BASE == "https://newsapi.org/v2"

API_KEY == "configured-key"

RequestTimeout == 30

DefaultLimit == 5

(***************************************************************************)
(* What the awaited client.get can produce: an exception of httpx or a     *)
(* response with a status code and a body. A body is its text together     *)
(* with what response.json() makes of that text.                           *)
(***************************************************************************)
Exc(type, msg) == <<"exc", type, msg>>

Response(status, body) == <<"resp", status, body>>

NotJson == <<"notjson">>

Body(text, parsed) == [text |-> text, parsed |-> parsed]

\* isinstance(e, cls) for the exception classes the handlers name.
IsInstance(e, cls) ==
    CASE cls = "TimeoutException" -> e[2] \in {"ConnectTimeout", "ReadTimeout"}
      [] cls = "ConnectError"     -> e[2] = "ConnectError"
      [] cls = "HTTPStatusError"  -> e[2] = "HTTPStatusError"
      [] cls = "Exception"        -> TRUE

(***************************************************************************)
(* tools.py: make_news_api_request.                                        *)
(***************************************************************************)

\* Lines 35-42: the params the request is sent with. None becomes a fresh
\* dict; a dict passed in is the caller's own object, and the key is stored in it.
InjectKey(params) ==
    SetItem(IF params[1] = "none" THEN <<>> ELSE params[2], "apiKey", Str(API_KEY))

\* Lines 35 and 45-49: the GET that is issued.
BuildRequest(ep, params) ==
    [url     |-> NEWS_API_BASE \o "/" \o ep,
     query   |-> InjectKey(params),
     timeout |-> RequestTimeout]

\* httpx Response.is_success.
IsSuccess(status) == status >= 200 /\ status <= 299

\* str(e) of the HTTPStatusError that response.raise_for_status() raises.
StatusErrorStr(status) ==
    (CASE status < 200 -> "Informational response"
       [] status >= 300 /\ status < 400 -> "Redirect response"
       [] status >= 400 /\ status < 500 -> "Client error"
       [] OTHER -> "Server error")
    \o " '" \o ToString(status) \o "' for url"

Ret(v) == <<"ret", v>>

Raise(e) == <<"raise", e>>

\* Lines 45-67: the body of the try block, given what client.get produced:
\* Ret(value) when it returns, Raise(exception) when it raises.
TryBody(o) ==
    IF o[1] = "exc" THEN Raise(o)
    ELSE LET status == o[2]
             body   == o[3]
         IN  CASE status = 429 ->
                    Ret(Str("Rate limit exceeded. The News API has a limit of 100 requests per day for the free tier."))
               [] status = 401 ->
                    Ret(Str("Unauthorized. API key invalid or expired."))
               [] status = 400 ->
                    Ret(Str("Bad request. Error details: " \o body.text))
               [] OTHER ->
                    IF ~IsSuccess(status)
                    THEN Raise(Exc("HTTPStatusError", StatusErrorStr(status)))
                    ELSE IF body.parsed = NotJson
                    THEN Raise(Exc("JSONDecodeError", "Expecting value: line 1 column 1 (char 0)"))
                    ELSE LET data == body.parsed
                         IN  IF ~IsDict(data)
                             THEN Raise(Exc("AttributeError",
                                     "'" \o TypeName(data) \o "' object has no attribute 'get'"))
                             ELSE IF Get(data, "status", None) = Str("error")
                             THEN Ret(Str("News API error: "
                                     \o PyStr(Get(data, "message", Str("Unknown error")))))
                             ELSE Ret(data)

\* The handlers without the final catch-all: an exception no earlier handler
\* names leaves the function.
HandleNoCatchAll(e, o) ==
    CASE IsInstance(e, "TimeoutException") ->
            Ret(Str("Request timed out after 30 seconds. The News API may be experiencing delays."))
      [] IsInstance(e, "ConnectError") ->
            Ret(Str("Failed to connect to News API. Please check your internet connection."))
      [] IsInstance(e, "HTTPStatusError") ->
            Ret(Str("HTTP error occurred: " \o e[3] \o " - Response: " \o o[3].text))
      [] OTHER -> Raise(e)

\* Lines 68-75: the except clauses, tried in order, for exception e raised
\* while handling outcome o.
Handle(e, o) ==
    CASE IsInstance(e, "TimeoutException") ->
            Ret(Str("Request timed out after 30 seconds. The News API may be experiencing delays."))
      [] IsInstance(e, "ConnectError") ->
            Ret(Str("Failed to connect to News API. Please check your internet connection."))
      [] IsInstance(e, "HTTPStatusError") ->
            Ret(Str("HTTP error occurred: " \o e[3] \o " - Response: " \o o[3].text))
      [] IsInstance(e, "Exception") ->
            Ret(Str("Unexpected error occurred: " \o e[3]))

\* A classification that tests the status of the body before the status code.
ClassifyBodyFirst(o) ==
    IF o[1] = "resp" /\ o[3].parsed # NotJson /\ IsDict(o[3].parsed)
       /\ Get(o[3].parsed, "status", None) # Str("error")
    THEN Ret(o[3].parsed)
    ELSE LET r == TryBody(o) IN IF r[1] = "raise" THEN Handle(r[2], o) ELSE r

\* Lines 44-75: what make_news_api_request returns (or raises) once the
\* awaited call has produced o.
Classify(o) ==
    LET r == TryBody(o) IN IF r[1] = "raise" THEN Handle(r[2], o) ELSE r

(***************************************************************************)
(* tools.py: the response formatter.                                       *)
(***************************************************************************)

NoDate == [error |-> "ValueError"]

DateTime(y, mo, d, h, mi, off) ==
    [year |-> y, month |-> mo, day |-> d, hour |-> h, minute |-> mi, offset |-> off]

\* datetime.fromisoformat(s.replace('Z', '+00:00')) on the date strings of the
\* model: the fields of the datetime, with its UTC offset in minutes (0 for a
\* naive datetime, which has none), or NoDate when the call raises ValueError.
IsoFields(s) ==
    CASE s = "2024-03-01T12:30:00Z" -> DateTime(2024, 3, 1, 12, 30, 0)
      [] s = "2024-03-02T08:05:59Z" -> DateTime(2024, 3, 2, 8, 5, 0)
      [] s = "2024-03-01T12:30:00+02:00" -> DateTime(2024, 3, 1, 12, 30, 120)
      [] s = "2024-11-05T09:15:00-05:00" -> DateTime(2024, 11, 5, 9, 15, 0 - 300)
      [] OTHER -> NoDate

\* The %m, %d, %H and %M fields: two digits.
Pad2(n) == IF n < 10 THEN "0" \o ToString(n) ELSE ToString(n)

\* A strftime that converts the datetime to UTC before it prints the fields
\* (the datetimes of the model stay within their day).
StrftimeAsUtc(dt) ==
    LET minutes == dt.hour * 60 + dt.minute - dt.offset
    IN  ToString(dt.year) \o "-" \o Pad2(dt.month) \o "-" \o Pad2(dt.day) \o " "
        \o Pad2(minutes \div 60) \o ":" \o Pad2(minutes % 60) \o " UTC"

\* date_obj.strftime("%Y-%m-%d %H:%M UTC"): the fields of the datetime as they
\* are, in its own offset, followed by the literal " UTC".
Strftime(dt) ==
    ToString(dt.year) \o "-" \o Pad2(dt.month) \o "-" \o Pad2(dt.day) \o " "
    \o Pad2(dt.hour) \o ":" \o Pad2(dt.minute) \o " UTC"

\* datetime.fromisoformat(s.replace('Z', '+00:00')).strftime("%Y-%m-%d %H:%M UTC")
\* on the date strings of the model: the text, or "ValueError" when the string
\* does not parse.
IsoDisplay(s) ==
    IF IsoFields(s) = NoDate THEN "ValueError" ELSE Strftime(IsoFields(s))

\* Lines 89-97: formatted_date, Ret(text) or Raise(exception).
FormattedDate(article) ==
    LET published_at == Get(article, "publishedAt", Str(""))
    IN  IF ~Truthy(published_at) THEN Ret("Unknown date")
        ELSE IF ~IsStr(published_at)
        THEN Raise(Exc("AttributeError",
                "'" \o TypeName(published_at) \o "' object has no attribute 'replace'"))
        ELSE IF IsoDisplay(published_at[2]) = "ValueError"
        THEN Ret(PyStr(published_at))
        ELSE Ret(IsoDisplay(published_at[2]))

\* Line 102: article.get('source', {}).get('name', 'N/A'), Ret(text) or Raise.
SourceName(article) ==
    LET source == Get(article, "source", Dict(EmptyMap))
    IN  IF ~IsDict(source)
        THEN Raise(Exc("AttributeError",
                "'" \o TypeName(source) \o "' object has no attribute 'get'"))
        ELSE Ret(PyStr(Get(source, "name", Str("N/A"))))

\* Lines 78-110.
format_article(article) ==
    IF ~IsDict(article)
    THEN "Error formatting article data: '" \o TypeName(article)
            \o "' object has no attribute 'get'"
    ELSE LET date == FormattedDate(article)
             src  == SourceName(article)
         IN  IF date[1] = "raise" THEN "Error formatting article data: " \o date[2][3]
             ELSE IF src[1] = "raise" THEN "Error formatting article data: " \o src[2][3]
             ELSE "Title: " \o PyStr(Get(article, "title", Str("N/A"))) \o "\n"
               \o "Source: " \o src[2] \o "\n"
               \o "Author: " \o PyStr(Get(article, "author", Str("N/A"))) \o "\n"
               \o "Published: " \o date[2] \o "\n"
               \o "Description: " \o PyStr(Get(article, "description", Str("N/A"))) \o "\n"
               \o "URL: " \o PyStr(Get(article, "url", Str("N/A"))) \o "\n"
               \o "---\n"

\* Lines 145-166.
format_source(source) ==
    IF ~IsDict(source)
    THEN "Error formatting source data: '" \o TypeName(source)
            \o "' object has no attribute 'get'"
    ELSE "Name: " \o PyStr(Get(source, "name", Str("N/A"))) \o "\n"
      \o "ID: " \o PyStr(Get(source, "id", Str("N/A"))) \o "\n"
      \o "Description: " \o PyStr(Get(source, "description", Str("N/A"))) \o "\n"
      \o "Category: " \o PyStr(Get(source, "category", Str("N/A"))) \o "\n"
      \o "Language: " \o PyStr(Get(source, "language", Str("N/A"))) \o "\n"
      \o "Country: " \o PyStr(Get(source, "country", Str("N/A"))) \o "\n"
      \o "URL: " \o PyStr(Get(source, "url", Str("N/A"))) \o "\n"
      \o "---\n"

\* s[:limit] on a list: the first limit items, and for a negative limit all
\* but the last -limit items.
SliceTo(s, limit) ==
    LET stop == IF limit >= 0
                THEN (IF limit < Len(s) THEN limit ELSE Len(s))
                ELSE (IF Len(s) + limit > 0 THEN Len(s) + limit ELSE 0)
    IN  SubSeq(s, 1, stop)

\* sep.join(parts).
RECURSIVE Join(_, _)
Join(parts, sep) ==
    IF Len(parts) = 0 THEN ""
    ELSE IF Len(parts) = 1 THEN parts[1]
    ELSE parts[1] \o sep \o Join(Tail(parts), sep)

\* A count of the items the limit leaves out that is one too small.
OmittedOffByOne(n, limit) == n - limit - 1

\* Lines 138 and 194: the count the trailing line states.
Omitted(n, limit) == n - limit

\* A loop that gives up the whole batch when an item is not a mapping.
FormattedAborting(kind, items, limit) ==
    LET limited == SliceTo(items, limit)
        blocks  == [i \in 1..Len(limited) |->
                      kind \o " " \o ToString(i) \o ":\n" \o
                      (IF kind = "Article" THEN format_article(limited[i])
                                           ELSE format_source(limited[i]))]
    IN  IF \E i \in 1..Len(limited) : ~IsDict(limited[i])
        THEN <<"Error formatting batch">>
        ELSE blocks

\* Lines 128-138 and 184-194: the list `formatted` when the loop and the
\* trailing-line test are done; kind is "Article" or "Source".
Formatted(kind, items, limit) ==
    LET limited == SliceTo(items, limit)
        blocks  == [i \in 1..Len(limited) |->
                      kind \o " " \o ToString(i) \o ":\n" \o
                      (IF kind = "Article" THEN format_article(limited[i])
                                           ELSE format_source(limited[i]))]
        plural  == IF kind = "Article" THEN "articles" ELSE "sources"
    IN  IF Len(items) > limit
        THEN Append(blocks, "\n... and " \o ToString(Omitted(Len(items), limit))
                               \o " more " \o plural)
        ELSE blocks

\* Lines 113-142: articles is the value passed (a list, or whatever the caller has).
format_articles(articles, limit) ==
    IF ~Truthy(articles) THEN "No articles found."
    ELSE IF ~IsList(articles)
    THEN "Error formatting articles: '" \o TypeName(articles) \o "' object is not subscriptable"
    ELSE Join(Formatted("Article", articles[2], limit), "\n")

\* Lines 169-198.
format_sources(sources, limit) ==
    IF ~Truthy(sources) THEN "No sources found."
    ELSE IF ~IsList(sources)
    THEN "Error formatting sources: '" \o TypeName(sources) \o "' object is not subscriptable"
    ELSE Join(Formatted("Source", sources[2], limit), "\n")

(***************************************************************************)
(* server.py: handle_call_tool.                                            *)
(***************************************************************************)
DefaultPageSize == 20

DefaultPage == 1

TextResult(t) == Ret(<<"text", t>>)

Reject(t) == [kind |-> "reject", text |-> t]

Request(ep, m) == [kind |-> "request", endpoint |-> ep, params |-> Params(m)]

\* Adds the item when the value is truthy (if v := arguments.get(arg): params[key] = v).
AddIfTruthy(m, args, arg, key) ==
    IF Truthy(Get(args, arg, None)) THEN SetItem(m, key, Get(args, arg, None)) ELSE m

\* str.upper() on the country codes of the model.
Upper(s) ==
    CASE s = "us" -> "US"
      [] s = "de" -> "DE"
      [] s = "zz" -> "ZZ"
      [] OTHER -> s

HeadlineFilters == <<"country", "category", "sources", "query">>

\* A filter test that asks for a value, not only for the key.
HasFilterValue(args) ==
    \E i \in DOMAIN HeadlineFilters : Truthy(Get(args, HeadlineFilters[i], None))

\* Line 208: any(param in arguments for param in [...]).
HasFilter(args) ==
    \E i \in DOMAIN HeadlineFilters : HasKey(args, HeadlineFilters[i])

\* A search-news mapping that sends the sort order and the start date under
\* their local names.
SearchParamsLocalNames(args) ==
    LET base == << <<"q", Get(args, "query", None)>>,
                   <<"pageSize", Get(args, "page_size", Num(DefaultPageSize))>>,
                   <<"page", Get(args, "page", Num(DefaultPage))>>,
                   <<"language", Get(args, "language", Str("en"))>>,
                   <<"sort_by", Get(args, "sort_by", Str("publishedAt"))>> >>
        p1 == AddIfTruthy(base, args, "from_date", "from_date")
        p2 == AddIfTruthy(p1, args, "to_date", "to")
    IN  AddIfTruthy(p2, args, "sources", "sources")

\* Lines 166-182: the params of search-news.
SearchParams(args) ==
    LET base == << <<"q", Get(args, "query", None)>>,
                   <<"pageSize", Get(args, "page_size", Num(DefaultPageSize))>>,
                   <<"page", Get(args, "page", Num(DefaultPage))>>,
                   <<"language", Get(args, "language", Str("en"))>>,
                   <<"sortBy", Get(args, "sort_by", Str("publishedAt"))>> >>
        p1 == AddIfTruthy(base, args, "from_date", "from")
        p2 == AddIfTruthy(p1, args, "to_date", "to")
    IN  AddIfTruthy(p2, args, "sources", "sources")

\* Lines 215-225: the params of get-top-headlines.
HeadlineParams(args) ==
    LET base == << <<"pageSize", Get(args, "page_size", Num(DefaultPageSize))>>,
                   <<"page", Get(args, "page", Num(DefaultPage))>> >>
        p1 == AddIfTruthy(base, args, "country", "country")
        p2 == AddIfTruthy(p1, args, "category", "category")
        p3 == AddIfTruthy(p2, args, "sources", "sources")
    IN  AddIfTruthy(p3, args, "query", "q")

\* Lines 266-271: the params of get-news-sources.
SourcesParams(args) ==
    LET p1 == AddIfTruthy(<<>>, args, "category", "category")
        p2 == AddIfTruthy(p1, args, "language", "language")
    IN  AddIfTruthy(p2, args, "country", "country")

\* A dispatch without the test for the query of search-news.
DispatchNoQueryCheck(nm, args) ==
    IF ~Truthy(args) THEN Reject("Missing arguments for the request")
    ELSE CASE nm = "search-news" -> Request("everything", SearchParams(args))
           [] nm = "get-top-headlines" ->
                IF ~HasFilter(args)
                THEN Reject("You must specify at least one of: country, category, sources, or query")
                ELSE Request("top-headlines", HeadlineParams(args))
           [] nm = "get-news-sources" -> Request("top-headlines/sources", SourcesParams(args))
           [] OTHER -> Reject("Unknown tool: " \o nm)

\* Lines 157-189, 206-232, 264-278 and 306-307: what the handler does before
\* any network activity: it rejects the call with a text, or it has the
\* endpoint and the params of the one request it goes on to make.
Dispatch(nm, args) ==
    IF ~Truthy(args) THEN Reject("Missing arguments for the request")
    ELSE CASE nm = "search-news" ->
                IF ~Truthy(Get(args, "query", None))
                THEN Reject("Missing query parameter")
                ELSE Request("everything", SearchParams(args))
           [] nm = "get-top-headlines" ->
                IF ~HasFilter(args)
                THEN Reject("You must specify at least one of: country, category, sources, or query")
                ELSE Request("top-headlines", HeadlineParams(args))
           [] nm = "get-news-sources" -> Request("top-headlines/sources", SourcesParams(args))
           [] OTHER -> Reject("Unknown tool: " \o nm)

\* Lines 246-258 and 291-301: the title, from the parts whose argument is truthy.
TitlePart(args, arg) ==
    LET v == Get(args, arg, None)
    IN  IF ~Truthy(v) THEN <<>>
        ELSE IF arg = "country" THEN <<"country: " \o Upper(PyStr(v))>>
        ELSE IF arg = "query" THEN <<"query: '" \o PyStr(v) \o "'">>
        ELSE <<arg \o ": " \o PyStr(v)>>

Title(head, parts) ==
    IF Len(parts) > 0 THEN head \o " for " \o Join(parts, ", ") ELSE head

\* A search-news continuation that formats the articles whether or not there are any.
SearchResultNoSentinel(args, data) ==
    LET query    == Get(args, "query", None)
        articles == Get(data, "articles", List(<<>>))
        total    == Get(data, "totalResults", Num(0))
    IN  [res |-> TextResult("Search results for '" \o PyStr(query) \o "' (Found "
                     \o PyStr(total) \o " articles):\n\n"
                     \o format_articles(articles, DefaultLimit)),
         fmt |-> 1]

\* Lines 194-204: search-news once the mediator has returned a dict.
SearchResult(args, data) ==
    LET query    == Get(args, "query", None)
        articles == Get(data, "articles", List(<<>>))
        total    == Get(data, "totalResults", Num(0))
    IN  IF ~Truthy(articles)
        THEN [res |-> TextResult("No articles found for query: '" \o PyStr(query) \o "'"),
              fmt |-> 0]
        ELSE [res |-> TextResult("Search results for '" \o PyStr(query) \o "' (Found "
                         \o PyStr(total) \o " articles):\n\n"
                         \o format_articles(articles, DefaultLimit)),
              fmt |-> 1]

\* Lines 237-262: get-top-headlines once the mediator has returned a dict.
HeadlinesResult(args, data) ==
    LET articles == Get(data, "articles", List(<<>>))
        total    == Get(data, "totalResults", Num(0))
        parts    == TitlePart(args, "country") \o TitlePart(args, "category")
                    \o TitlePart(args, "sources") \o TitlePart(args, "query")
    IN  IF ~Truthy(articles)
        THEN [res |-> TextResult("No headlines found matching your criteria"), fmt |-> 0]
        ELSE [res |-> TextResult(Title("Top headlines", parts) \o " (Found "
                         \o PyStr(total) \o " articles):\n\n"
                         \o format_articles(articles, DefaultLimit)),
              fmt |-> 1]

\* Lines 283-305: get-news-sources once the mediator has returned a dict;
\* len(sources) raises on a value that has no length.
SourcesResult(args, data) ==
    LET sources == Get(data, "sources", List(<<>>))
        parts   == TitlePart(args, "category") \o TitlePart(args, "language")
                   \o TitlePart(args, "country")
    IN  IF ~Truthy(sources)
        THEN [res |-> TextResult("No news sources found matching your criteria"), fmt |-> 0]
        ELSE IF ~IsList(sources)
        THEN [res |-> Raise(Exc("TypeError",
                         "object of type '" \o TypeName(sources) \o "' has no len()")),
              fmt |-> 1]
        ELSE [res |-> TextResult(Title("Available news sources", parts) \o " (Found "
                         \o ToString(Len(sources[2])) \o " sources):\n\n"
                         \o format_sources(sources, DefaultLimit)),
              fmt |-> 1]

\* Lines 191-204, 234-262 and 280-305: the rest of the handler, given what
\* make_news_api_request returned (or raised): the result and the number of
\* calls of the list formatter.
Continue(nm, args, news) ==
    IF news[1] = "raise" THEN [res |-> news, fmt |-> 0]
    ELSE IF IsStr(news[2]) THEN [res |-> TextResult("Error: " \o news[2][2]), fmt |-> 0]
    ELSE CASE nm = "search-news" -> SearchResult(args, news[2])
           [] nm = "get-top-headlines" -> HeadlinesResult(args, news[2])
           [] nm = "get-news-sources" -> SourcesResult(args, news[2])

(***************************************************************************)
(* server.py: handle_list_tools, the declared inputSchema of each tool.    *)
(***************************************************************************)
Languages ==
    {"ar", "de", "en", "es", "fr", "he", "it", "nl", "no", "pt", "ru", "sv", "ud", "zh"}

SortOrders == {"relevancy", "popularity", "publishedAt"}

Categories ==
    {"business", "entertainment", "general", "health", "science", "sports", "technology"}

Countries ==
    {"ae", "ar", "at", "au", "be", "bg", "br", "ca", "ch", "cn", "co", "cu", "cz", "de",
     "eg", "fr", "gb", "gr", "hk", "hu", "id", "ie", "il", "in", "it", "jp", "kr", "lt",
     "lv", "ma", "mx", "my", "ng", "nl", "no", "nz", "ph", "pl", "pt", "ro", "rs", "ru",
     "sa", "se", "sg", "si", "sk", "th", "tr", "tw", "ua", "us", "ve", "za"}

\* The pattern ^\d{4}-\d{2}-\d{2}$ on the date strings of the model.
DatePattern(s) == s \in {"2024-01-01", "2024-01-31"}

\* Whether value v satisfies the schema that tool nm declares for property key;
\* a property the tool does not declare is unconstrained.
PropertyValid(nm, key, v) ==
    CASE key \in {"query", "sources"} -> IsStr(v)
      [] key \in {"from_date", "to_date"} /\ nm = "search-news" ->
            IsStr(v) /\ DatePattern(v[2])
      [] key = "language" /\ nm \in {"search-news", "get-news-sources"} ->
            IsStr(v) /\ v[2] \in Languages
      [] key = "sort_by" /\ nm = "search-news" -> IsStr(v) /\ v[2] \in SortOrders
      [] key = "page_size" /\ nm \in {"search-news", "get-top-headlines"} ->
            v[1] = "int" /\ v[2] >= 1 /\ v[2] <= 100
      [] key = "page" /\ nm \in {"search-news", "get-top-headlines"} ->
            v[1] = "int" /\ v[2] >= 1
      [] key = "country" /\ nm \in {"get-top-headlines", "get-news-sources"} ->
            IsStr(v) /\ v[2] \in Countries
      [] key = "category" /\ nm \in {"get-top-headlines", "get-news-sources"} ->
            IsStr(v) /\ v[2] \in Categories
      [] OTHER -> TRUE

\* Whether args is an object that satisfies the inputSchema of tool nm.
SchemaValid(nm, args) ==
    /\ IsDict(args)
    /\ nm = "search-news" => HasKey(args, "query")
    /\ \A key \in DOMAIN args[2] : PropertyValid(nm, key, args[2][key])

(***************************************************************************)
(* The inputs of the model: tool invocations, direct calls of the          *)
(* mediator, and what the upstream can answer.                             *)
(***************************************************************************)
ToolNames == {"search-news", "get-top-headlines", "get-news-sources", "delete-news"}

SearchArgs ==
    {Strip([query |-> q, from_date |-> f, to_date |-> t, sources |-> s]) :
        q \in {Absent, Str(""), Str("ai")},
        f \in {Absent, Str(""), Str("2024-01-01")},
        t \in {Absent, Str("2024-01-31")},
        s \in {Absent, Str("bbc-news")}}
    \cup
    {Strip([query |-> Str("ai"), language |-> l, sort_by |-> o, page_size |-> z, page |-> p]) :
        l \in {Absent, Str("de"), Str("xx")},
        o \in {Absent, Str("relevancy"), Str("newest")},
        z \in {Absent, Num(50), Num(500)},
        p \in {Absent, Num(2), Num(0)}}

HeadlineArgs ==
    {Strip([country |-> c, category |-> g, sources |-> s, query |-> q]) :
        c \in {Absent, Str(""), Str("us"), Str("zz")},
        g \in {Absent, Str(""), Str("sports")},
        s \in {Absent, Str("bbc-news")},
        q \in {Absent, Str(""), Str("ai")}}
    \cup
    {Strip([country |-> c, page_size |-> z, page |-> p]) :
        c \in {Absent, Str("us")},
        z \in {Absent, Num(50), Num(0)},
        p \in {Absent, Num(2)}}

SourcesArgs ==
    {Strip([category |-> g, language |-> l, country |-> c]) :
        g \in {Absent, Str(""), Str("sports"), Str("gossip")},
        l \in {Absent, Str("en"), Str("xx")},
        c \in {Absent, Str("us"), Str("zz")}}

ToolInputs ==
    {<<nm, a>> : nm \in ToolNames, a \in {None, Dict(EmptyMap)}}
    \cup {<<"search-news", a>> : a \in SearchArgs}
    \cup {<<"get-top-headlines", a>> : a \in HeadlineArgs}
    \cup {<<"get-news-sources", a>> : a \in SourcesArgs}
    \cup {<<"delete-news", Strip([query |-> Str("ai")])>>}

Endpoints == {"everything", "top-headlines", "top-headlines/sources"}

CallerMappings ==
    { <<>>,
      SearchParams(Strip([query |-> Str("ai"), from_date |-> Str("2024-01-01")])),
      << <<"q", Str("ai")>>, <<"pageSize", Num(3)>> >>,
      << <<"apiKey", Str("stale-key")>>, <<"q", Str("ai")>> >> }

ArticleItem(i) ==
    Dict([title |-> Str("Title " \o ToString(i)),
          source |-> Dict([name |-> Str("BBC News")]),
          author |-> Str("Ann"),
          publishedAt |-> Str("2024-03-01T12:30:00Z"),
          description |-> Str("About " \o ToString(i)),
          url |-> Str("https://example.org/" \o ToString(i))])

SourceItem(i) ==
    Dict([id |-> Str("src-" \o ToString(i)),
          name |-> Str("Source " \o ToString(i)),
          description |-> Str("About " \o ToString(i)),
          category |-> Str("general"),
          language |-> Str("en"),
          country |-> Str("us"),
          url |-> Str("https://example.org/" \o ToString(i))])

OkArticles(n) ==
    Body("{\"status\":\"ok\",\"totalResults\":" \o ToString(n) \o ",\"articles\":[...]}",
         Dict([status |-> Str("ok"), totalResults |-> Num(n),
               articles |-> List([i \in 1..n |-> ArticleItem(i)])]))

OkSources(n) ==
    Body("{\"status\":\"ok\",\"sources\":[..." \o ToString(n) \o "]}",
         Dict([status |-> Str("ok"), sources |-> List([i \in 1..n |-> SourceItem(i)])]))

ErrorBody ==
    Body("{\"status\":\"error\",\"code\":\"parameterInvalid\",\"message\":\"Bad parameter\"}",
         Dict([status |-> Str("error"), code |-> Str("parameterInvalid"),
               message |-> Str("Bad parameter")]))

HtmlBody == Body("<html>Bad Gateway</html>", NotJson)

OtherBodies ==
    { ErrorBody,
      HtmlBody,
      Body("", NotJson),
      Body("{\"status\":\"error\"}", Dict([status |-> Str("error")])),
      Body("{\"status\":\"ok\"}", Dict([status |-> Str("ok")])),
      Body("{\"status\":\"ok\",\"articles\":null,\"sources\":null}",
           Dict([status |-> Str("ok"), articles |-> None, sources |-> None])),
      Body("{\"articles\":7}", Dict([articles |-> Num(7)])),
      Body("{\"sources\":7}", Dict([sources |-> Num(7)])),
      Body("[]", List(<<>>)),
      Body("null", None),
      Body("\"error\"", Str("error")) }

Bodies ==
    {OkArticles(n) : n \in 0..MaxArticles} \cup {OkSources(n) : n \in 0..MaxArticles}
    \cup OtherBodies

ErrorStatuses == {100, 301, 400, 401, 404, 429, 500}

Outcomes ==
    {Exc(t, "") : t \in {"ConnectTimeout", "ReadTimeout", "ConnectError", "ReadError"}}
    \cup {Response(st, b) : st \in ErrorStatuses, b \in {ErrorBody, HtmlBody, OkArticles(1)}}
    \cup {Response(200, b) : b \in Bodies}
    \cup {Response(204, Body("", NotJson))}

\* The invocations and the answers of concurrent tool calls: one request of
\* each tool, calls that validation rejects, and answers of every class.
ConcInputs ==
    { <<"search-news", Strip([query |-> Str("ai"), from_date |-> Str("2024-01-01")])>>,
      <<"search-news", Strip([query |-> Str("")])>>,
      <<"search-news", None>>,
      <<"get-top-headlines", Strip([country |-> Str("us")])>>,
      <<"get-news-sources", Strip([language |-> Str("en")])>>,
      <<"delete-news", Strip([query |-> Str("ai")])>> }

ConcOutcomes ==
    { Response(200, OkArticles(1)),
      Response(200, OkArticles(0)),
      Response(200, OkSources(1)),
      Response(429, ErrorBody),
      Response(500, HtmlBody),
      Exc("ReadTimeout", ""),
      Exc("ConnectError", "") }

\* The lists and limits the formatters are called with on their own.
RECURSIVE SeqsUpTo(_, _)
SeqsUpTo(S, n) ==
    IF n = 0 THEN {<<>>}
    ELSE LET shorter == SeqsUpTo(S, n - 1)
         IN  shorter \cup {Append(q, x) : q \in shorter, x \in S}

ArticleValues ==
    { ArticleItem(1),
      Dict([title |-> Str("Title 2"), source |-> None, url |-> Str("https://example.org/2")]),
      Str("not an article") }

SourceValues ==
    { SourceItem(1),
      Dict([id |-> Str("src-2"), name |-> None]),
      None }

ArticleLists == {List(q) : q \in SeqsUpTo(ArticleValues, MaxItems)}

SourceLists == {List(q) : q \in SeqsUpTo(SourceValues, MaxItems)}

Limits == -1..MaxLimit

\* The records the single-item formatters are called with: every field is
\* missing, null or a value.
ItemArticles ==
    {Strip([title |-> t, source |-> s, author |-> a, publishedAt |-> p,
            description |-> d, url |-> u]) :
        t \in {Absent, None, Str("Title 1")},
        s \in {Absent, None, Dict(EmptyMap), Dict([name |-> None]),
               Dict([name |-> Str("BBC News")])},
        a \in {Absent, None, Str("Ann")},
        p \in {Absent, None, Str(""), Str("2024-03-01T12:30:00Z"),
               Str("2024-03-01T12:30:00+02:00"), Str("2024-11-05T09:15:00-05:00"),
               Str("not-a-date"), Num(1709296200)},
        d \in {Absent, Str("About 1")},
        u \in {Absent, None, Str("https://example.org/1")}}

ItemSources ==
    {Strip([name |-> n, id |-> i, description |-> d, category |-> g, language |-> l,
            country |-> c, url |-> u]) :
        n \in {Absent, None, Str("Source 1")},
        i \in {Absent, None, Str("src-1")},
        d \in {Absent, Str("About 1")},
        g \in {Absent, Str("general")},
        l \in {Absent, Str("en")},
        c \in {Absent, Str("us")},
        u \in {Absent, None, Str("https://example.org/1")}}

(***************************************************************************)
(* The state machine.                                                      *)
(***************************************************************************)
NoOutcome == <<"pending">>

Init ==
    /\ pc = [c \in Calls |-> "idle"]
    /\ entry = [c \in Calls |-> "none"]
    /\ name = [c \in Calls |-> ""]
    /\ arguments = [c \in Calls |-> None]
    /\ endpoint = [c \in Calls |-> ""]
    /\ client = [c \in Calls |-> "none"]
    /\ requests = [c \in Calls |-> <<>>]
    /\ outcome = [c \in Calls |-> NoOutcome]
    /\ news_data = [c \in Calls |-> NoOutcome]
    /\ result = [c \in Calls |-> NoOutcome]
    /\ fmtCalls = [c \in Calls |-> 0]
    /\ callerParams = <<>>
    /\ fmtKind = "none"
    /\ fmtItems = List(<<>>)
    /\ fmtLimit = 0
    /\ fmtOut = ""

\* No invocation is in progress.
Quiet == \A c \in Calls : pc[c] = "idle"

\* Lines 45-49 of tools.py: the one awaited client.get of a call.
Issue(reqs, req) == Append(reqs, req)

\* A failed attempt that is followed by a second client.get.
RetryOnFailure(reqs, o) ==
    IF o[1] = "exc" \/ ~IsSuccess(o[2]) THEN Append(reqs, reqs[Len(reqs)]) ELSE reqs

\* Lines 51-75 of tools.py: every path from the awaited client.get leads to a
\* return; none issues another request.
AfterOutcome(reqs, o) == reqs

\* handle_call_tool(nm, args) up to its first suspension: the call is rejected
\* and returns, or the handler opens its client (async with), builds the
\* request in make_news_api_request and awaits client.get.
CallTool(c, nm, args) ==
    /\ pc[c] = "idle"
    /\ entry' = [entry EXCEPT ![c] = "tool"]
    /\ name' = [name EXCEPT ![c] = nm]
    /\ arguments' = [arguments EXCEPT ![c] = args]
    /\ LET d == Dispatch(nm, args)
       IN  IF d.kind = "reject"
           THEN /\ pc' = [pc EXCEPT ![c] = "done"]
                /\ result' = [result EXCEPT ![c] = TextResult(d.text)]
                /\ UNCHANGED <<endpoint, client, requests>>
           ELSE /\ pc' = [pc EXCEPT ![c] = "awaiting"]
                /\ endpoint' = [endpoint EXCEPT ![c] = d.endpoint]
                /\ client' = [client EXCEPT ![c] = "open"]
                /\ requests' = [requests EXCEPT ![c] =
                                  Issue(@, BuildRequest(d.endpoint, d.params))]
                /\ UNCHANGED result
    /\ UNCHANGED <<outcome, news_data, fmtCalls, callerParams>>
    /\ UNCHANGED formatVars

\* The direct caller builds a params dict (direct_test.py, search_params).
NewParams(m) ==
    /\ callerParams' = m
    /\ UNCHANGED <<pc, entry, name, arguments, endpoint, client, requests, outcome,
                   news_data, result, fmtCalls>>
    /\ UNCHANGED formatVars

\* make_news_api_request(client, ep, params) called directly, up to its
\* suspension in client.get; params is None or the caller's dict, in which
\* line 42 stores the key.
DirectRequest(c, ep, byRef) ==
    /\ pc[c] = "idle"
    /\ LET params == IF byRef THEN Params(callerParams) ELSE None
       IN  /\ requests' = [requests EXCEPT ![c] = Issue(@, BuildRequest(ep, params))]
           /\ callerParams' = IF byRef THEN InjectKey(params) ELSE callerParams
    /\ pc' = [pc EXCEPT ![c] = "awaiting"]
    /\ entry' = [entry EXCEPT ![c] = "direct"]
    /\ endpoint' = [endpoint EXCEPT ![c] = ep]
    /\ client' = [client EXCEPT ![c] = "caller"]
    /\ UNCHANGED <<name, arguments, outcome, news_data, result, fmtCalls>>
    /\ UNCHANGED formatVars

\* A handler whose calls share one client: leaving the async with block of
\* one call closes the handle every suspended call is using.
RespondSharedClient(c, o) ==
    /\ pc[c] = "awaiting"
    /\ outcome' = [outcome EXCEPT ![c] = o]
    /\ news_data' = [news_data EXCEPT ![c] = Classify(o)]
    /\ pc' = [pc EXCEPT ![c] = "done"]
    /\ IF entry[c] = "tool"
       THEN LET k == Continue(name[c], arguments[c], Classify(o))
            IN  /\ result' = [result EXCEPT ![c] = k.res]
                /\ fmtCalls' = [fmtCalls EXCEPT ![c] = k.fmt]
                /\ client' = [d \in Calls |-> IF client[d] = "open" THEN "closed" ELSE client[d]]
       ELSE /\ result' = [result EXCEPT ![c] = Classify(o)]
            /\ UNCHANGED <<fmtCalls, client>>
    /\ requests' = [requests EXCEPT ![c] = requests[c]]
    /\ UNCHANGED <<entry, name, arguments, endpoint, callerParams>>
    /\ UNCHANGED formatVars

\* The awaited client.get produces o: the mediator classifies it and returns;
\* a tool call goes on to its result and leaves the async with block, which
\* closes its client.
Respond(c, o) ==
    /\ pc[c] = "awaiting"
    /\ outcome' = [outcome EXCEPT ![c] = o]
    /\ news_data' = [news_data EXCEPT ![c] = Classify(o)]
    /\ pc' = [pc EXCEPT ![c] = "done"]
    /\ IF entry[c] = "tool"
       THEN LET k == Continue(name[c], arguments[c], Classify(o))
            IN  /\ result' = [result EXCEPT ![c] = k.res]
                /\ fmtCalls' = [fmtCalls EXCEPT ![c] = k.fmt]
                /\ client' = [client EXCEPT ![c] = "closed"]
       ELSE /\ result' = [result EXCEPT ![c] = Classify(o)]
            /\ UNCHANGED <<fmtCalls, client>>
    /\ requests' = [requests EXCEPT ![c] = AfterOutcome(@, o)]
    /\ UNCHANGED <<entry, name, arguments, endpoint, callerParams>>
    /\ UNCHANGED formatVars

\* The caller has the result; the frame of the call is gone.
Return(c) ==
    /\ pc[c] = "done"
    /\ pc' = [pc EXCEPT ![c] = "idle"]
    /\ entry' = [entry EXCEPT ![c] = "none"]
    /\ name' = [name EXCEPT ![c] = ""]
    /\ arguments' = [arguments EXCEPT ![c] = None]
    /\ endpoint' = [endpoint EXCEPT ![c] = ""]
    /\ client' = [client EXCEPT ![c] = "none"]
    /\ requests' = [requests EXCEPT ![c] = <<>>]
    /\ outcome' = [outcome EXCEPT ![c] = NoOutcome]
    /\ news_data' = [news_data EXCEPT ![c] = NoOutcome]
    /\ result' = [result EXCEPT ![c] = NoOutcome]
    /\ fmtCalls' = [fmtCalls EXCEPT ![c] = 0]
    /\ UNCHANGED callerParams
    /\ UNCHANGED formatVars

\* format_articles(items, limit) called on its own (direct_test.py, line 56).
FormatArticlesCall(items, limit) ==
    /\ fmtKind = "none"
    /\ fmtKind' = "articles"
    /\ fmtItems' = items
    /\ fmtLimit' = limit
    /\ fmtOut' = format_articles(items, limit)
    /\ UNCHANGED callVars

\* format_sources(items, limit) called on its own.
FormatSourcesCall(items, limit) ==
    /\ fmtKind = "none"
    /\ fmtKind' = "sources"
    /\ fmtItems' = items
    /\ fmtLimit' = limit
    /\ fmtOut' = format_sources(items, limit)
    /\ UNCHANGED callVars

\* format_article(item) called on its own.
FormatArticleCall(item) ==
    /\ fmtKind = "none"
    /\ fmtKind' = "article"
    /\ fmtItems' = item
    /\ fmtLimit' = 0
    /\ fmtOut' = format_article(item)
    /\ UNCHANGED callVars

\* format_source(item) called on its own.
FormatSourceCall(item) ==
    /\ fmtKind = "none"
    /\ fmtKind' = "source"
    /\ fmtItems' = item
    /\ fmtLimit' = 0
    /\ fmtOut' = format_source(item)
    /\ UNCHANGED callVars

\* The caller has the text.
FormatReturn ==
    /\ fmtKind # "none"
    /\ fmtKind' = "none"
    /\ fmtItems' = List(<<>>)
    /\ fmtLimit' = 0
    /\ fmtOut' = ""
    /\ UNCHANGED callVars

\* The server: tool invocations, one at a time.
Next ==
    \/ \E c \in Calls, in \in ToolInputs : Quiet /\ CallTool(c, in[1], in[2])
    \/ \E c \in Calls, o \in Outcomes : Respond(c, o)
    \/ \E c \in Calls : Return(c)

Spec == Init /\ [][Next]_vars

\* A script that calls the mediator itself, as direct_test.py does.
NextDirect ==
    \/ \E m \in CallerMappings : Quiet /\ NewParams(m)
    \/ \E c \in Calls, ep \in Endpoints, byRef \in BOOLEAN : Quiet /\ DirectRequest(c, ep, byRef)
    \/ \E c \in Calls, o \in Outcomes : Respond(c, o)
    \/ \E c \in Calls : Return(c)

SpecDirect == Init /\ [][NextDirect]_vars

\* The server with tool invocations in flight at the same time: a call may
\* start while others are suspended in client.get, and the answers arrive in
\* any order.
NextConc ==
    \/ \E c \in Calls, in \in ConcInputs : CallTool(c, in[1], in[2])
    \/ \E c \in Calls, o \in ConcOutcomes : Respond(c, o)
    \/ \E c \in Calls : Return(c)

SpecConc == Init /\ [][NextConc]_vars

\* Calls of the list formatters on their own.
NextFormat ==
    \/ \E items \in ArticleLists, limit \in Limits : FormatArticlesCall(items, limit)
    \/ \E items \in SourceLists, limit \in Limits : FormatSourcesCall(items, limit)
    \/ FormatReturn

SpecFormat == Init /\ [][NextFormat]_vars

\* Calls of the single-item formatters on their own.
NextItem ==
    \/ \E item \in ItemArticles : FormatArticleCall(item)
    \/ \E item \in ItemSources : FormatSourceCall(item)
    \/ FormatReturn

SpecItem == Init /\ [][NextItem]_vars

(***************************************************************************)
(* Properties of make_news_api_request, checked on direct calls            *)
(* (SpecDirect).                                                           *)
(***************************************************************************)
DirectDone(c) == entry[c] = "direct" /\ pc[c] = "done"

TimedOutText == "Request timed out after 30 seconds. The News API may be experiencing delays."

ConnectFailedText == "Failed to connect to News API. Please check your internet connection."

RateLimitText == "Rate limit exceeded. The News API has a limit of 100 requests per day for the free tier."

UnauthorizedText == "Unauthorized. API key invalid or expired."

\* What str(e) can be for the exceptions no earlier handler names.
UnexpectedTexts ==
    {"Unexpected error occurred: " \o m :
        m \in {"", "Expecting value: line 1 column 1 (char 0)"}
              \cup {"'" \o t \o "' object has no attribute 'get'" :
                       t \in {"NoneType", "str", "int", "list"}}}

\* The outcome is neither a timeout nor a connection failure nor a non-2xx
\* status, and yet no JSON object came back.
OtherFailure(o) ==
    \/ o[1] = "exc" /\ o[2] \notin {"ConnectTimeout", "ReadTimeout", "ConnectError"}
    \/ o[1] = "resp" /\ IsSuccess(o[2]) /\ (o[3].parsed = NotJson \/ ~IsDict(o[3].parsed))

\* C1: make_news_api_request never raises: for every endpoint, params and
\* outcome of the HTTP call it returns a parsed JSON object or an error
\* string; a timeout returns the timed-out message, a connection failure the
\* could-not-connect message, and any other exception (a transport error, a
\* 2xx body that is no JSON object) the 'Unexpected error occurred: ...' string.
C1_NeverRaises ==
    \A c \in Calls : DirectDone(c) =>
        LET o == outcome[c]
            r == result[c]
        IN  /\ r[1] = "ret"
            /\ IsDict(r[2]) \/ IsStr(r[2])
            /\ IsDict(r[2]) => o[1] = "resp" /\ r[2] = o[3].parsed
            /\ (o[1] = "exc" /\ o[2] \in {"ConnectTimeout", "ReadTimeout"})
                  => r = Ret(Str(TimedOutText))
            /\ (o[1] = "exc" /\ o[2] = "ConnectError") => r = Ret(Str(ConnectFailedText))
            /\ OtherFailure(o) => IsStr(r[2]) /\ r[2][2] \in UnexpectedTexts

C1_Witness ==
    \E c \in Calls :
        /\ DirectDone(c)
        /\ outcome[c] = Response(200, Body("[]", List(<<>>)))
        /\ result[c] = Ret(Str("Unexpected error occurred: 'list' object has no attribute 'get'"))

\* C2: a response is classified by the first matching rule: 429 -> the
\* rate-limit message, 401 -> the credential message, 400 -> the bad-request
\* message with the upstream body, any other non-2xx status -> the generic
\* HTTP-error message with status and body, a 2xx JSON object whose status
\* is "error" -> 'News API error: <message>', any other 2xx JSON object ->
\* that object unchanged; so no non-2xx response and no error body is a success.
C2_Classification ==
    \A c \in Calls : (DirectDone(c) /\ outcome[c][1] = "resp") =>
        LET st   == outcome[c][2]
            body == outcome[c][3]
            r    == result[c]
        IN  /\ st = 429 => r = Ret(Str(RateLimitText))
            /\ st = 401 => r = Ret(Str(UnauthorizedText))
            /\ st = 400 => r = Ret(Str("Bad request. Error details: " \o body.text))
            /\ (~IsSuccess(st) /\ st \notin {429, 401, 400})
                  => r = Ret(Str("HTTP error occurred: " \o StatusErrorStr(st)
                                   \o " - Response: " \o body.text))
            /\ (IsSuccess(st) /\ body.parsed # NotJson /\ IsDict(body.parsed))
                  => IF Get(body.parsed, "status", None) = Str("error")
                     THEN r = Ret(Str("News API error: "
                                 \o PyStr(Get(body.parsed, "message", Str("Unknown error")))))
                     ELSE r = Ret(body.parsed)
            /\ ~IsSuccess(st) => IsStr(r[2])

C2_Witness ==
    \E c \in Calls :
        /\ DirectDone(c)
        /\ outcome[c] = Response(429, ErrorBody)
        /\ result[c] = Ret(Str(RateLimitText))

\* C3: every outbound request carries the parameter apiKey exactly once, with
\* the configured key as its value, whatever params the caller passed: None,
\* an empty dict, a dict that already has an apiKey item, a dict used before.
C3_CredentialOnce ==
    \A c \in Calls : \A i \in DOMAIN requests[c] :
        /\ CountKey(requests[c][i].query, "apiKey") = 1
        /\ ItemValue(requests[c][i].query, "apiKey") = Str(API_KEY)

\* The request of a call whose dict had an apiKey item before the call: the
\* item kept its place in front of q.
C3_Witness ==
    \E c \in Calls :
        /\ entry[c] = "direct"
        /\ pc[c] = "awaiting"
        /\ requests[c][1].query = << <<"apiKey", Str(API_KEY)>>, <<"q", Str("ai")>> >>

(***************************************************************************)
(* Properties of handle_call_tool, checked on tool invocations (Spec).     *)
(***************************************************************************)
KnownTools == {"search-news", "get-top-headlines", "get-news-sources"}

ToolCall(c) == entry[c] = "tool"

ToolDone(c) == entry[c] = "tool" /\ pc[c] = "done"

MissingArgumentsText == "Missing arguments for the request"

\* C4: one tool invocation makes at most one outbound call, and its result
\* exists only once that call has completed: after a timeout, a connection
\* failure, an error status or an error body no second request is made.
C4_SingleAttempt ==
    \A c \in Calls : ToolCall(c) =>
        /\ Len(requests[c]) <= 1
        /\ pc[c] = "awaiting" => Len(requests[c]) = 1 /\ result[c] = NoOutcome
        /\ (pc[c] = "done" /\ Len(requests[c]) = 1) => outcome[c] # NoOutcome
        /\ result[c] # NoOutcome => pc[c] = "done"

C4_Witness ==
    \E c \in Calls :
        /\ ToolDone(c)
        /\ name[c] = "get-top-headlines"
        /\ outcome[c] = Exc("ReadTimeout", "")
        /\ Len(requests[c]) = 1
        /\ result[c] = TextResult("Error: " \o TimedOutText)

\* C5: a get-top-headlines call with no country, category, sources or query
\* value is rejected with a validation message and makes no network call;
\* every top-headlines request carries one of country, category, sources, q.
C5_HeadlinesNeedFilter ==
    \A c \in Calls : (ToolCall(c) /\ name[c] = "get-top-headlines") =>
        /\ (~IsDict(arguments[c]) \/ ~HasFilterValue(arguments[c])) =>
              /\ pc[c] = "done"
              /\ requests[c] = <<>>
              /\ result[c] \in
                    {TextResult(MissingArgumentsText),
                     TextResult("You must specify at least one of: country, category, sources, or query")}
        /\ \A i \in DOMAIN requests[c] :
              ItemKeys(requests[c][i].query) \cap {"country", "category", "sources", "q"} # {}

MissingQuery(c) ==
    /\ name[c] = "search-news"
    /\ ~IsDict(arguments[c]) \/ ~Truthy(Get(arguments[c], "query", None))

\* C6: a search-news call without a query (absent, empty, or no arguments at
\* all) returns an error text at once: no transport handle is opened and no
\* network call is made; the same holds for an unknown tool name.
C6_ShortCircuit ==
    \A c \in Calls : (ToolCall(c) /\ (MissingQuery(c) \/ name[c] \notin KnownTools)) =>
        /\ pc[c] = "done"
        /\ client[c] = "none"
        /\ requests[c] = <<>>
        /\ outcome[c] = NoOutcome
        /\ result[c] =
              IF ~Truthy(arguments[c]) THEN TextResult(MissingArgumentsText)
              ELSE IF name[c] = "search-news" THEN TextResult("Missing query parameter")
              ELSE TextResult("Unknown tool: " \o name[c])

C6_Witness ==
    \E c \in Calls :
        /\ ToolDone(c)
        /\ name[c] = "search-news"
        /\ arguments[c] = Strip([query |-> Str(""), from_date |-> Str("2024-01-01")])
        /\ client[c] = "none"
        /\ result[c] = TextResult("Missing query parameter")

\* The properties whose schema declares an enum or a numeric bound.
ConstrainedKeys == {"language", "sort_by", "page_size", "page", "country", "category"}

\* An argument of the call violates the type, enum or bound its schema declares.
OutOfSchema(nm, args) ==
    /\ IsDict(args)
    /\ \E key \in DOMAIN args[2] \cap ConstrainedKeys : ~PropertyValid(nm, key, args[2][key])

\* The upstream key an argument is sent under.
UpstreamKey(key) ==
    CASE key = "sort_by" -> "sortBy"
      [] key = "page_size" -> "pageSize"
      [] OTHER -> key

\* C7: a call whose argument violates the declared schema (type, enum,
\* numeric bound) produces an immediate error result and no network call,
\* so no out-of-schema value reaches the upstream query.
C7_SchemaEnforced ==
    \A c \in Calls :
        (ToolCall(c) /\ name[c] \in KnownTools /\ OutOfSchema(name[c], arguments[c])) =>
            /\ pc[c] = "done"
            /\ requests[c] = <<>>
            /\ \A i \in DOMAIN requests[c] :
                  \A key \in DOMAIN arguments[c][2] \cap ConstrainedKeys :
                      UpstreamKey(key) \in ItemKeys(requests[c][i].query) =>
                          PropertyValid(name[c], key,
                                        ItemValue(requests[c][i].query, UpstreamKey(key)))

\* C8: a get-news-sources call with an empty argument mapping is a valid
\* request: it makes one call to the sources endpoint that carries only the
\* credential, and its result is no argument-validation error.
C8_SourcesNoArguments ==
    \A c \in Calls :
        (ToolCall(c) /\ name[c] = "get-news-sources" /\ arguments[c] = Dict(EmptyMap)
            /\ SchemaValid(name[c], arguments[c])) =>
            /\ Len(requests[c]) = 1
            /\ requests[c][1].url = NEWS_API_BASE \o "/top-headlines/sources"
            /\ requests[c][1].query = << <<"apiKey", Str(API_KEY)>> >>
            /\ result[c] # TextResult(MissingArgumentsText)

Success(c) == news_data[c][1] = "ret" /\ IsDict(news_data[c][2])

NoItems(c, key) == ~Truthy(Get(news_data[c][2], key, List(<<>>)))

\* C9: when the mediator returns success and the articles of the payload are
\* empty or absent, search-news returns exactly "No articles found for query:
\* '<query>'" and the formatter is not invoked; get-top-headlines and
\* get-news-sources return their own no-results message in the same way.
C9_NoResults ==
    \A c \in Calls : (ToolDone(c) /\ Success(c)) =>
        /\ (name[c] = "search-news" /\ NoItems(c, "articles")) =>
              /\ result[c] = TextResult("No articles found for query: '"
                                \o PyStr(Get(arguments[c], "query", None)) \o "'")
              /\ fmtCalls[c] = 0
        /\ (name[c] = "get-top-headlines" /\ NoItems(c, "articles")) =>
              /\ result[c] = TextResult("No headlines found matching your criteria")
              /\ fmtCalls[c] = 0
        /\ (name[c] = "get-news-sources" /\ NoItems(c, "sources")) =>
              /\ result[c] = TextResult("No news sources found matching your criteria")
              /\ fmtCalls[c] = 0

C9_Witness ==
    \E c \in Calls :
        /\ ToolDone(c)
        /\ name[c] = "search-news"
        /\ outcome[c] = Response(200, OkArticles(0))
        /\ result[c] = TextResult("No articles found for query: 'ai'")
        /\ fmtCalls[c] = 0

(***************************************************************************)
(* Properties of format_articles and format_sources (SpecFormat).          *)
(***************************************************************************)
Min(a, b) == IF a < b THEN a ELSE b

Render(kind, item) == IF kind = "articles" THEN format_article(item) ELSE format_source(item)

Label(kind) == IF kind = "articles" THEN "Article" ELSE "Source"

\* The blocks of the first m items, labelled 1..m.
Blocks(kind, items, m) ==
    [i \in 1..m |-> Label(kind) \o " " \o ToString(i) \o ":\n" \o Render(kind, items[i])]

\* The output for n items and limit L as the claim describes it.
Truncated(kind, items, L) ==
    LET n == Len(items)
    IN  IF n = 0 THEN "No " \o kind \o " found."
        ELSE Join(Blocks(kind, items, Min(n, L))
                    \o (IF n > L
                        THEN <<"\n... and " \o ToString(n - L) \o " more " \o kind>>
                        ELSE <<>>),
                  "\n")

\* The blocks the call rendered and the count its trailing line states.
RenderedBlocks == Len(SliceTo(fmtItems[2], fmtLimit))

StatedOmitted ==
    IF Len(fmtItems[2]) > fmtLimit THEN Omitted(Len(fmtItems[2]), fmtLimit) ELSE 0

\* C10 as stated, for every limit: n = 0 gives the 'No <kind> found.'
\* sentinel; otherwise the first min(n, L) items are rendered in order under
\* the ordinals 1..min(n, L), and '... and k more <kind>' is appended iff
\* n > L, with k = n - L, so rendered blocks plus omitted count equal n.
C10_TruncationAnyLimit ==
    fmtKind # "none" =>
        /\ fmtOut = Truncated(fmtKind, fmtItems[2], fmtLimit)
        /\ Len(fmtItems[2]) > 0 => RenderedBlocks + StatedOmitted = Len(fmtItems[2])

\* C10, amended: the same for every limit L >= 0.
C10_Truncation ==
    (fmtKind # "none" /\ fmtLimit >= 0) =>
        /\ fmtOut = Truncated(fmtKind, fmtItems[2], fmtLimit)
        /\ Len(fmtItems[2]) > 0 => RenderedBlocks + StatedOmitted = Len(fmtItems[2])
        /\ Len(fmtItems[2]) > 0 => RenderedBlocks = Min(Len(fmtItems[2]), fmtLimit)

C10_Witness ==
    /\ fmtKind = "articles"
    /\ Len(fmtItems[2]) = 3
    /\ fmtLimit = 2
    /\ fmtOut = "Article 1:\n" \o format_article(fmtItems[2][1]) \o "\n"
                \o "Article 2:\n" \o format_article(fmtItems[2][2]) \o "\n"
                \o "\n... and 1 more articles"

(***************************************************************************)
(* Properties of format_article and format_source (SpecItem).              *)
(***************************************************************************)

\* A field is absent upstream: its key is missing or its value is null.
AbsentField(d, key) == ~HasKey(d, key) \/ d[2][key] = None

\* A labelled field: the upstream value, or "N/A" when it is absent.
FieldOrNA(d, key) == IF AbsentField(d, key) THEN "N/A" ELSE PyStr(d[2][key])

\* The name of the nested source object, "N/A" when the object or its name is absent.
SourceOrNA(d) == IF AbsentField(d, "source") THEN "N/A" ELSE FieldOrNA(d[2]["source"], "name")

\* The article block with the given text in its Published field.
ArticleBlock(d, published) ==
       "Title: " \o FieldOrNA(d, "title") \o "\n"
    \o "Source: " \o SourceOrNA(d) \o "\n"
    \o "Author: " \o FieldOrNA(d, "author") \o "\n"
    \o "Published: " \o published \o "\n"
    \o "Description: " \o FieldOrNA(d, "description") \o "\n"
    \o "URL: " \o FieldOrNA(d, "url") \o "\n"
    \o "---\n"

SourceBlock(d) ==
       "Name: " \o FieldOrNA(d, "name") \o "\n"
    \o "ID: " \o FieldOrNA(d, "id") \o "\n"
    \o "Description: " \o FieldOrNA(d, "description") \o "\n"
    \o "Category: " \o FieldOrNA(d, "category") \o "\n"
    \o "Language: " \o FieldOrNA(d, "language") \o "\n"
    \o "Country: " \o FieldOrNA(d, "country") \o "\n"
    \o "URL: " \o FieldOrNA(d, "url") \o "\n"
    \o "---\n"

\* The publishedAt of the record is missing, null or a string.
DateIsText(d) == AbsentField(d, "publishedAt") \/ IsStr(d[2]["publishedAt"])

\* C11: every labelled field of format_article and format_source shows the
\* upstream value, or "N/A" when the key is missing or its value is null
\* (a null or missing source object and a missing publishedAt included), and
\* the block has all its labelled lines in the fixed order and the separator.
C11_AbsentFieldsAreNA ==
    /\ (fmtKind = "article" /\ DateIsText(fmtItems)) =>
          fmtOut = ArticleBlock(fmtItems,
                      IF AbsentField(fmtItems, "publishedAt") THEN "N/A"
                      ELSE FormattedDate(fmtItems)[2])
    /\ fmtKind = "source" => fmtOut = SourceBlock(fmtItems)

\* Every field of the record but publishedAt is present with a value.
OtherFieldsPresent(d) ==
    /\ \A key \in {"title", "source", "author", "description", "url"} : ~AbsentField(d, key)
    /\ IsDict(d[2]["source"])
    /\ ~AbsentField(d[2]["source"], "name")

\* The publishedAt value parses as ISO-8601.
Parses(v) == IsStr(v) /\ IsoFields(v[2]) # NoDate

\* C12: format_article never raises on any publishedAt value: a value that
\* parses as ISO-8601 is shown as 'YYYY-MM-DD HH:MM UTC' for that instant, a
\* value that does not parse is shown verbatim, and every other field of the
\* block is rendered.
C12_PublishedField ==
    (/\ fmtKind = "article"
     /\ OtherFieldsPresent(fmtItems)
     /\ HasKey(fmtItems, "publishedAt")
     /\ Truthy(fmtItems[2]["publishedAt"])) =>
        LET v == fmtItems[2]["publishedAt"]
        IN  fmtOut = ArticleBlock(fmtItems,
                        IF Parses(v) THEN StrftimeAsUtc(IsoFields(v[2])) ELSE PyStr(v))

\* The argument is supplied with a value.
Supplied(args, arg) == HasKey(args, arg) /\ Truthy(args[2][arg])

\* The value an upstream key carries: the argument's, or the default.
ArgOr(args, arg, default) == IF HasKey(args, arg) THEN args[2][arg] ELSE default

LocalNames == {"query", "from_date", "to_date", "sort_by", "page_size"}

\* The upstream query of the request call c has issued.
Sent(c) == requests[c][1].query

\* Key k is in the sent query exactly when wanted, once, carrying value v.
Carries(q, k, wanted, v) ==
    IF wanted THEN CountKey(q, k) = 1 /\ ItemValue(q, k) = v
    ELSE k \notin ItemKeys(q)

\* The name table of search-news.
SearchTable(args, q) ==
    /\ Carries(q, "q", TRUE, args[2]["query"])
    /\ Carries(q, "pageSize", TRUE, ArgOr(args, "page_size", Num(20)))
    /\ Carries(q, "page", TRUE, ArgOr(args, "page", Num(1)))
    /\ Carries(q, "language", TRUE, ArgOr(args, "language", Str("en")))
    /\ Carries(q, "sortBy", TRUE, ArgOr(args, "sort_by", Str("publishedAt")))
    /\ Carries(q, "from", Supplied(args, "from_date"), ArgOr(args, "from_date", None))
    /\ Carries(q, "to", Supplied(args, "to_date"), ArgOr(args, "to_date", None))
    /\ Carries(q, "sources", Supplied(args, "sources"), ArgOr(args, "sources", None))
    /\ Carries(q, "apiKey", TRUE, Str(API_KEY))
    /\ ItemKeys(q) \subseteq {"q", "pageSize", "page", "language", "sortBy",
                              "from", "to", "sources", "apiKey"}

\* The name table of get-top-headlines.
HeadlineTable(args, q) ==
    /\ Carries(q, "q", Supplied(args, "query"), ArgOr(args, "query", None))
    /\ Carries(q, "pageSize", TRUE, ArgOr(args, "page_size", Num(20)))
    /\ Carries(q, "page", TRUE, ArgOr(args, "page", Num(1)))
    /\ \A k \in {"country", "category", "sources"} :
          Carries(q, k, Supplied(args, k), ArgOr(args, k, None))
    /\ Carries(q, "apiKey", TRUE, Str(API_KEY))
    /\ ItemKeys(q) \subseteq {"q", "pageSize", "page", "country", "category",
                              "sources", "apiKey"}

\* C14: the upstream query of search-news follows the fixed name table
\* (q, pageSize default 20, page default 1, language default "en", sortBy
\* default "publishedAt", from / to / sources exactly when supplied with a
\* value); apart from the credential no other key is sent and no local
\* argument name is an upstream key; get-top-headlines maps query to q and
\* page_size to pageSize in the same way.
C14_NameTable ==
    \A c \in Calls :
        (entry[c] = "tool" /\ requests[c] # <<>>) =>
            /\ Len(requests[c]) = 1
            /\ ItemKeys(Sent(c)) \cap LocalNames = {}
            /\ name[c] = "search-news" => SearchTable(arguments[c], Sent(c))
            /\ name[c] = "get-top-headlines" => HeadlineTable(arguments[c], Sent(c))

\* A search-news call is suspended in its request, made with a start date,
\* an end date and sources, and the query sent is the table's.
C14_Witness ==
    \E c \in Calls :
        /\ pc[c] = "awaiting"
        /\ name[c] = "search-news"
        /\ arguments[c] = Strip([query |-> Str("ai"), from_date |-> Str("2024-01-01"),
                                 to_date |-> Str("2024-01-31"), sources |-> Str("bbc-news")])
        /\ Sent(c) = << <<"q", Str("ai")>>, <<"pageSize", Num(20)>>, <<"page", Num(1)>>,
                        <<"language", Str("en")>>, <<"sortBy", Str("publishedAt")>>,
                        <<"from", Str("2024-01-01")>>, <<"to", Str("2024-01-31")>>,
                        <<"sources", Str("bbc-news")>>, <<"apiKey", Str(API_KEY)>> >>

(***************************************************************************)
(* Error isolation in format_articles and format_sources (SpecFormat).     *)
(***************************************************************************)

\* Where the single-item renderer fails on the item: the value and the
\* attribute it lacks, or no failure. A non-mapping item lacks get, a
\* publishedAt that is not text lacks replace, a source that is not a mapping
\* lacks get.
Failure(kind, item) ==
    IF ~IsDict(item) THEN <<"fails", item, "get">>
    ELSE IF kind = "sources" THEN <<"renders">>
    ELSE IF HasKey(item, "publishedAt") /\ Truthy(item[2]["publishedAt"])
                                        /\ ~IsStr(item[2]["publishedAt"])
    THEN <<"fails", item[2]["publishedAt"], "replace">>
    ELSE IF HasKey(item, "source") /\ ~IsDict(item[2]["source"])
    THEN <<"fails", item[2]["source"], "get">>
    ELSE <<"renders">>

Fails(kind, item) == Failure(kind, item)[1] = "fails"

\* The inline error string of a failing item.
InlineError(kind, item) ==
    "Error formatting " \o (IF kind = "articles" THEN "article" ELSE "source") \o " data: '"
       \o TypeName(Failure(kind, item)[2]) \o "' object has no attribute '"
       \o Failure(kind, item)[3] \o "'"

\* The numbered entry of item i.
Entry(kind, items, i) ==
    Label(kind) \o " " \o ToString(i) \o ":\n" \o
       (IF Fails(kind, items[i]) THEN InlineError(kind, items[i]) ELSE Render(kind, items[i]))

\* The trailing line, when the list is longer than the limit.
Trailer(kind, n, L) ==
    IF n > L THEN <<"\n... and " \o ToString(n - L) \o " more " \o kind>> ELSE <<>>

\* An item both renderers accept.
GoodItem(kind) == IF kind = "articles" THEN ArticleItem(1) ELSE SourceItem(1)

\* C15: rendering a batch is never aborted by one bad item: the output has a
\* numbered entry for every one of the first min(n, limit) items, a failing
\* item's entry holds an inline error string in place of its block, the
\* entries of the other items are what they are without the bad item, and
\* the call returns a text.
C15_ErrorIsolation ==
    (/\ fmtKind \in {"articles", "sources"}
     /\ \E b \in 1..Len(fmtItems[2]) : Fails(fmtKind, fmtItems[2][b])) =>
        LET items == fmtItems[2]
            n     == Len(items)
            m     == RenderedBlocks
        IN  /\ m >= Min(n, fmtLimit)
            /\ fmtOut = Join([i \in 1..m |-> Entry(fmtKind, items, i)]
                                \o Trailer(fmtKind, n, fmtLimit), "\n")
            /\ \A b \in 1..m : Fails(fmtKind, items[b]) =>
                  LET without == [items EXCEPT ![b] = GoodItem(fmtKind)]
                  IN  \A i \in (1..m) \ {b} :
                         Formatted(Label(fmtKind), items, fmtLimit)[i]
                            = Formatted(Label(fmtKind), without, fmtLimit)[i]

\* Three articles of which the second has a null source: its entry is the
\* inline error, the first and the third are rendered in full.
C15_Witness ==
    /\ fmtKind = "articles"
    /\ fmtLimit = 3
    /\ fmtItems = List(<<ArticleItem(1),
                         Dict([title |-> Str("Title 2"), source |-> None,
                               url |-> Str("https://example.org/2")]),
                         ArticleItem(1)>>)
    /\ fmtOut = "Article 1:\n" \o format_article(ArticleItem(1)) \o "\n"
                \o "Article 2:\nError formatting article data: "
                \o "'NoneType' object has no attribute 'get'\n"
                \o "Article 3:\n" \o format_article(ArticleItem(1))

(***************************************************************************)
(* The frame of make_news_api_request (SpecDirect).                        *)
(***************************************************************************)

\* A step of a call of make_news_api_request: it starts, its request is
\* answered, or it returns.
CallStep == \E c \in Calls : pc'[c] # pc[c]

\* C16: make_news_api_request has no side effect other than the outbound
\* request: no step of a call, on success or on any failure path, changes
\* the keys or values of the parameter mapping the caller passed.
C16_CallerParamsUnchanged ==
    [][CallStep => callerParams' = callerParams]_vars

(***************************************************************************)
(* Concurrent invocations of handle_call_tool (SpecConc).                  *)
(***************************************************************************)

\* The one request call c makes, from its own name and arguments.
OwnRequest(c) ==
    LET d == Dispatch(name[c], arguments[c])
    IN  BuildRequest(d.endpoint, d.params)

\* The result of call c when it runs alone with the same upstream answer.
AloneResult(c) ==
    LET d == Dispatch(name[c], arguments[c])
    IN  IF d.kind = "reject" THEN TextResult(d.text)
        ELSE Continue(name[c], arguments[c], Classify(outcome[c])).res

\* Call c has its own handle while it is suspended, uses it for its own
\* request only, has released it when its result exists, and has none when
\* validation rejected it.
Scoped(c) ==
    LET rejected == Dispatch(name[c], arguments[c]).kind = "reject"
    IN  /\ pc[c] = "idle" => client[c] = "none" /\ requests[c] = <<>>
        /\ pc[c] = "awaiting" =>
              /\ ~rejected
              /\ client[c] = "open"
              /\ requests[c] = <<OwnRequest(c)>>
              /\ result[c] = NoOutcome
        /\ (pc[c] = "done" /\ rejected) =>
              /\ client[c] = "none"
              /\ requests[c] = <<>>
              /\ outcome[c] = NoOutcome
              /\ result[c] = AloneResult(c)
        /\ (pc[c] = "done" /\ ~rejected) =>
              /\ client[c] = "closed"
              /\ requests[c] = <<OwnRequest(c)>>
              /\ result[c] = AloneResult(c)

\* The state of call c.
CallState(c) ==
    <<pc[c], entry[c], name[c], arguments[c], endpoint[c], client[c], requests[c],
      outcome[c], news_data[c], result[c], fmtCalls[c]>>

\* A step of one call leaves the state of every other call as it was.
OthersUntouched ==
    \A c \in Calls : pc'[c] # pc[c] =>
        \A d \in Calls \ {c} : CallState(d)' = CallState(d)

\* C17: in any interleaving of concurrent handle_call_tool invocations each
\* invocation that reaches the network has one transport handle of its own,
\* issues its request only on it with its own parameter set and has released
\* it when it returns, on success and on every failure path; a rejected
\* invocation acquires no handle; no invocation writes the state of another,
\* and each result is the one the call produces alone with the same answer.
C17_Independent ==
    /\ [](\A c \in Calls : Scoped(c))
    /\ [][OthersUntouched]_vars

\* One call has returned its timeout text and released its handle while a
\* call of another tool, started before that answer, is still suspended on
\* its own open handle with its own request.
C17_Witness ==
    \E c, d \in Calls :
        /\ c # d
        /\ pc[c] = "done" /\ name[c] = "search-news"
        /\ outcome[c] = Exc("ReadTimeout", "")
        /\ client[c] = "closed"
        /\ result[c] = TextResult("Error: " \o TimedOutText)
        /\ requests[c][1].url = NEWS_API_BASE \o "/everything"
        /\ pc[d] = "awaiting" /\ name[d] = "get-top-headlines"
        /\ client[d] = "open"
        /\ requests[d] = << [url |-> NEWS_API_BASE \o "/top-headlines",
                             query |-> << <<"pageSize", Num(20)>>, <<"page", Num(1)>>,
                                          <<"country", Str("us")>>,
                                          <<"apiKey", Str(API_KEY)>> >>,
                             timeout |-> 30] >>

====
